---------------------------- MODULE Spec2Model ----------------------------
(***************************************************************************)
(* A model of src/content-script.js: the AzureDevOpsPRStats aggregator,    *)
(* the page-level navigation handler initializeExtension, and the page     *)
(* (markers, anchor candidates, URL, clock) they run against.              *)
(*                                                                         *)
(* Every handler (timer callback, observer callback, listener) is one      *)
(* action: it runs to completion as one event-loop task, and the mutation  *)
(* records it produced are delivered to the observers at the end of it.    *)
(***************************************************************************)
EXTENDS Integers, Sequences, FiniteSets

(***************************************************************************)
(* Program constants.                                                      *)
(***************************************************************************)
DebounceDelay == 500
StartDelay == 1000
NavDelay == 1000

(***************************************************************************)
(* Bounds of the model.                                                    *)
(***************************************************************************)
MaxInst == 2
MaxMarkers == 1
MaxTimers == 2
MaxInitMarkers == 3

\* The clock advances in steps of one debounce window; what happens between
\* two steps happens at the same time, in any order.
TickMs == DebounceDelay

Inst == 1..MaxInst
NoInst == 0
\* Badge elements: createElement returns an object distinct from every live one.
Elem == 1..(MaxInst + 2)
NoElem == 0
\* Candidate anchors (.body-m.text-ellipsis elements), in document order.
Slot == 1..2
NoSlot == 0

\* location.pathname as its path segments.
Urls == {<<"pullrequest", "1">>, <<"files">>}

(***************************************************************************)
(* Texts are sequences of one-character strings.                           *)
(***************************************************************************)
Digits == {"0", "1", "2", "3", "4", "5", "6", "7", "8", "9"}
Signs == {"+", "-"}

DigitValue(c) ==
  CASE c = "0" -> 0 [] c = "1" -> 1 [] c = "2" -> 2 [] c = "3" -> 3
    [] c = "4" -> 4 [] c = "5" -> 5 [] c = "6" -> 6 [] c = "7" -> 7
    [] c = "8" -> 8 [] c = "9" -> 9

\* String.prototype.trim: leading and trailing white space removed.
RECURSIVE TrimLeft(_)
TrimLeft(text) ==
  IF text # <<>> /\ Head(text) = " " THEN TrimLeft(Tail(text)) ELSE text

RECURSIVE TrimRight(_)
TrimRight(text) ==
  IF text # <<>> /\ text[Len(text)] = " "
    THEN TrimRight(SubSeq(text, 1, Len(text) - 1))
    ELSE text

Trim(text) == TrimRight(TrimLeft(text))

\* Where the digits of a match of /[+-]?(\d+)/ starting at p begin; 0: no match at p.
MatchAt(text, p) ==
  IF text[p] \in Signs /\ p + 1 <= Len(text) /\ text[p + 1] \in Digits THEN p + 1
  ELSE IF text[p] \in Digits THEN p
  ELSE 0

\* The leftmost position at which the pattern matches; 0: none.
FirstMatch(text) ==
  IF \E p \in 1..Len(text) : MatchAt(text, p) # 0
    THEN CHOOSE p \in 1..Len(text) :
           /\ MatchAt(text, p) # 0
           /\ \A q \in 1..(p - 1) : MatchAt(text, q) = 0
    ELSE 0

\* \d+ is greedy: the digits run as far as they go.
RunEnd(text, from) ==
  CHOOSE e \in from..Len(text) :
    /\ \A k \in from..e : text[k] \in Digits
    /\ (e = Len(text) \/ text[e + 1] \notin Digits)

\* parseInt(digits, 10) of a string of digits.
RECURSIVE ParseInt(_)
ParseInt(digits) ==
  IF digits = <<>> THEN 0
  ELSE 10 * ParseInt(SubSeq(digits, 1, Len(digits) - 1))
         + DigitValue(digits[Len(digits)])

\* parseInt of the whole match, its sign included, instead of its digits.
ExtractNumberSigned(text) ==
  LET p == FirstMatch(text) IN
  IF p = 0 THEN 0
  ELSE LET d == MatchAt(text, p)
           n == ParseInt(SubSeq(text, d, RunEnd(text, d)))
       IN IF text[p] = "-" THEN 0 - n ELSE n

ExtractNumber(text) ==
  LET p == FirstMatch(text) IN
  IF p = 0 THEN 0
  ELSE LET d == MatchAt(text, p) IN ParseInt(SubSeq(text, d, RunEnd(text, d)))

(***************************************************************************)
(* State.                                                                  *)
(***************************************************************************)
VARIABLES
  readyState,      \* document.readyState
  url,             \* location
  markers,         \* the marker spans of the document, in document order
  anchors,         \* per candidate anchor: "absent", "plain" or "file" (its text names files)
  children,        \* per candidate anchor: its .ado-pr-stats descendants, in order
  content,         \* per badge element: its innerHTML texts and its title
  lastUrl,         \* lastUrl of the navigation observer
  prStats,         \* the global prStats
  waiting,         \* instances whose DOMContentLoaded listener is registered
  timers,          \* pending setTimeout callbacks, in the order they were set, each
                   \* with the time left until it is due
  lifecycle,       \* per instance: "unborn", "live" (constructed), "disposed" (destroy called)
  additionsTotal,
  deletionsTotal,
  sinceUpdate,     \* per instance: Date.now() - lastUpdate, as far as the rate limit
                   \* reads it: every value >= DebounceDelay is kept as DebounceDelay
  observer,        \* per instance: "null", "connected" or "disconnected"
  statsElement,
  last             \* what the last task did (history, read by the properties only)

envVars == <<readyState, url, markers, anchors>>
vars == <<readyState, url, markers, anchors, children, content, lastUrl, prStats,
          waiting, timers, lifecycle, additionsTotal, deletionsTotal, sinceUpdate,
          observer, statsElement, last>>

AddedClass == "repos-compare-added-lines"
RemovedClass == "repos-compare-removed-lines"
BadgeClass == "ado-pr-stats"

\* DOM nodes as the observer callback reads them.
MarkerNode(cls) == [nodeType |-> "element", classList |-> {cls}, markerInside |-> FALSE]
RowNode == [nodeType |-> "element", classList |-> {"row"}, markerInside |-> TRUE]
BadgeNode == [nodeType |-> "element", classList |-> {BadgeClass}, markerInside |-> FALSE]
SpanNode == [nodeType |-> "element", classList |-> {}, markerInside |-> FALSE]
TextNode == [nodeType |-> "text", classList |-> {}, markerInside |-> FALSE]
AnchorNode == [nodeType |-> "element", classList |-> {"body-m", "text-ellipsis"},
               markerInside |-> FALSE]
OtherNode == [nodeType |-> "element", classList |-> {"other"}, markerInside |-> FALSE]

ChildList(added, removed) ==
  [type |-> "childList", addedNodes |-> added, removedNodes |-> removed]

\* A badge text: "+15" is [sign |-> "+", value |-> 15], "0" is [sign |-> "", value |-> 0].
SignedText(sign, value) == [sign |-> sign, value |-> value]
Blank == [additionsText |-> SignedText("none", 0), deletionsText |-> SignedText("none", 0),
          title |-> <<>>]

NoLog == [op |-> "env", inst |-> NoInst, scanned |-> FALSE, skipped |-> FALSE,
          injected |-> FALSE, target |-> NoSlot, created |-> NoElem, removed |-> NoElem,
          before |-> <<>>]

\* The log of a task of instance i starts with the totals the task found.
Log(op, i) ==
  [NoLog EXCEPT !.op = op, !.inst = i,
                !.before = IF i = NoInst THEN <<>> ELSE <<additionsTotal[i], deletionsTotal[i]>>]

(***************************************************************************)
(* The state a task works on: the program's variables, the mutation        *)
(* records queued for each observer during the task, and the task's log.   *)
(***************************************************************************)
Cur(op, i) ==
  [children |-> children, content |-> content, lastUrl |-> lastUrl, prStats |-> prStats,
   waiting |-> waiting, timers |-> timers, lifecycle |-> lifecycle,
   additionsTotal |-> additionsTotal, deletionsTotal |-> deletionsTotal,
   sinceUpdate |-> sinceUpdate, observer |-> observer, statsElement |-> statsElement,
   records |-> [j \in Inst |-> <<>>], docRecords |-> <<>>, log |-> Log(op, i)]

SeqToSet(q) == {q[k] : k \in 1..Len(q)}

\* document.contains(e) for a badge element e.
InDocument(s, e) == \E k \in Slot : e \in SeqToSet(s.children[k])

\* A childList mutation in the document: queued for every connected observer.
Mutate(s, record) ==
  [s EXCEPT !.records = [j \in Inst |->
                           IF s.observer[j] = "connected" THEN Append(@[j], record) ELSE @[j]],
            !.docRecords = Append(@, record)]

\* setTimeout(callback, delay)
SetTimeout(s, kind, i, delay) ==
  [s EXCEPT !.timers = Append(@, [kind |-> kind, inst |-> i, wait |-> delay])]

(***************************************************************************)
(* AzureDevOpsPRStats.                                                     *)
(***************************************************************************)
\* The texts of the spans document.querySelectorAll finds for a marker class.
RECURSIVE SpanTexts(_, _)
SpanTexts(ms, cls) ==
  IF ms = <<>> THEN <<>>
  ELSE IF Head(ms).cls = cls THEN <<Head(ms).text>> \o SpanTexts(Tail(ms), cls)
  ELSE SpanTexts(Tail(ms), cls)

\* The forEach of calculateStats: a number is added when it is > 0.
RECURSIVE SumSpans(_)
SumSpans(texts) ==
  IF texts = <<>> THEN 0
  ELSE LET number == ExtractNumber(Trim(Head(texts))) IN
       (IF number > 0 THEN number ELSE 0) + SumSpans(Tail(texts))

\* Every call taken for one made too early.
RateLimitedAlways(s, i) == TRUE

\* No rate limit.
RateLimitedNever(s, i) == FALSE

\* The rate limit of calculateStats.
RateLimited(s, i) == s.sinceUpdate[i] < DebounceDelay

\* The sign written whatever the total.
AdditionsTextSigned(total) == SignedText("+", total)

AdditionsText(total) == IF total > 0 THEN SignedText("+", total) ELSE SignedText("", 0)
DeletionsText(total) == IF total > 0 THEN SignedText("-", total) ELSE SignedText("", 0)

\* What updateStatsDisplay writes into the badge of totals a and d.
Display(a, d) ==
  [additionsText |-> AdditionsText(a), deletionsText |-> DeletionsText(d), title |-> <<a, d>>]

\* Setting innerHTML replaces the badge's children: text nodes and spans.
InnerHtmlRecord ==
  ChildList(<<TextNode, SpanNode, TextNode, SpanNode, TextNode, SpanNode, TextNode>>,
            <<TextNode, SpanNode, TextNode, SpanNode, TextNode, SpanNode, TextNode>>)

\* The badge left as it is.
UpdateStatsDisplaySkipped(s, i) == s

UpdateStatsDisplay(s, i) ==
  IF s.statsElement[i] = NoElem THEN s
  ELSE LET e == s.statsElement[i]
           s1 == [s EXCEPT !.content[e] = Display(s.additionsTotal[i], s.deletionsTotal[i])]
       IN IF InDocument(s, e) THEN Mutate(s1, InnerHtmlRecord) ELSE s1

\* The counters not reset: each run adds to the totals of the run before.
CalculateStatsAccumulating(s, i) ==
  IF RateLimited(s, i) THEN [s EXCEPT !.log.skipped = TRUE]
  ELSE UpdateStatsDisplay(
         [s EXCEPT !.sinceUpdate[i] = 0,
                   !.additionsTotal[i] = @ + SumSpans(SpanTexts(markers, AddedClass)),
                   !.deletionsTotal[i] = @ + SumSpans(SpanTexts(markers, RemovedClass)),
                   !.log.scanned = TRUE],
         i)

CalculateStats(s, i) ==
  IF RateLimited(s, i) THEN [s EXCEPT !.log.skipped = TRUE]
  ELSE UpdateStatsDisplay(
         [s EXCEPT !.sinceUpdate[i] = 0,
                   !.additionsTotal[i] = SumSpans(SpanTexts(markers, AddedClass)),
                   !.deletionsTotal[i] = SumSpans(SpanTexts(markers, RemovedClass)),
                   !.log.scanned = TRUE],
         i)

\* The first .body-m.text-ellipsis element whose text names files, else the
\* first one, else none.
FindFileCountElement ==
  IF \E k \in Slot : anchors[k] = "file"
    THEN CHOOSE k \in Slot : anchors[k] = "file" /\ \A j \in 1..(k - 1) : anchors[j] # "file"
  ELSE IF \E k \in Slot : anchors[k] # "absent"
    THEN CHOOSE k \in Slot : anchors[k] # "absent" /\ \A j \in 1..(k - 1) : anchors[j] = "absent"
  ELSE NoSlot

\* Elements no instance holds and the document does not contain.
FreeElems(s) ==
  {e \in Elem : ~InDocument(s, e) /\ \A j \in Inst : s.statsElement[j] # e}

\* document.createElement: an element that is none of the live ones.
CreateElement(s) == CHOOSE e \in FreeElems(s) : \A f \in FreeElems(s) : e <= f

\* The existing badge left where it is.
RemoveExistingKept(s, target) == s

\* targetElement.querySelector('.ado-pr-stats'), removed when there is one.
RemoveExisting(s, target) ==
  IF s.children[target] = <<>> THEN s
  ELSE Mutate([s EXCEPT !.children[target] = Tail(@),
                        !.log.removed = Head(s.children[target])],
              ChildList(<<>>, <<BadgeNode>>))

\* The badge created and held although nothing is there to hold it.
InjectStatsDetached(s, i) ==
  LET e == CreateElement(s) IN
  UpdateStatsDisplay([s EXCEPT !.statsElement[i] = e, !.content[e] = Blank,
                               !.log.injected = TRUE, !.log.created = e], i)

InjectStats(s, i) ==
  LET targetElement == FindFileCountElement IN
  IF targetElement = NoSlot THEN s
  ELSE LET s1 == RemoveExisting(s, targetElement)
           e == CreateElement(s1)
           s2 == UpdateStatsDisplay([s1 EXCEPT !.statsElement[i] = e, !.content[e] = Blank], i)
       IN Mutate([s2 EXCEPT !.children[targetElement] = Append(@, e),
                            !.log.injected = TRUE,
                            !.log.target = targetElement,
                            !.log.created = e],
                 ChildList(<<BadgeNode>>, <<>>))

\* observer.disconnect(): the records queued for it are dropped.
Disconnect(s, i) ==
  [s EXCEPT !.observer[i] = "disconnected", !.records[i] = <<>>]

SetupObserver(s, i) ==
  LET s1 == IF s.observer[i] # "null" THEN Disconnect(s, i) ELSE s IN
  [s1 EXCEPT !.observer[i] = "connected", !.records[i] = <<>>]

\* The slot whose element is e's parentNode; NoSlot: none.
ParentOf(s, e) ==
  IF InDocument(s, e) THEN CHOOSE k \in Slot : e \in SeqToSet(s.children[k]) ELSE NoSlot

RemoveChild(q, e) == SelectSeq(q, LAMBDA x : x # e)

Destroy(s, i) ==
  LET s0 == [s EXCEPT !.lifecycle[i] = "disposed"]
      s1 == IF s0.observer[i] # "null" THEN Disconnect(s0, i) ELSE s0
      e == s1.statsElement[i]
  IN IF e # NoElem /\ ParentOf(s1, e) # NoSlot
       THEN Mutate([s1 EXCEPT !.children[ParentOf(s1, e)] = RemoveChild(@, e)],
                   ChildList(<<>>, <<BadgeNode>>))
       ELSE s1

\* start(): the initial calculation is set to run after StartDelay.
Start(s, i) == SetTimeout(s, "start", i, StartDelay)

\* init(): start now, or when the document has been parsed.
InitInstance(s, i) ==
  IF readyState = "loading" THEN [s EXCEPT !.waiting = @ \cup {i}] ELSE Start(s, i)

\* Date.now() - 0: the milliseconds since 1970 are more than any delay.
SinceEpoch == DebounceDelay

\* new AzureDevOpsPRStats(), as instance i.
Construct(s, i) ==
  InitInstance([s EXCEPT !.lifecycle[i] = "live",
                         !.additionsTotal[i] = 0,
                         !.deletionsTotal[i] = 0,
                         !.observer[i] = "null",
                         !.statsElement[i] = NoElem,
                         !.sinceUpdate[i] = SinceEpoch],
               i)

\* Any record at all taken for a change of the markers.
ShouldRecalculateAny(mutations) == mutations # <<>>

\* The callback of the instance's MutationObserver.
ShouldRecalculate(mutations) ==
  \E m \in SeqToSet(mutations) :
    /\ m.type = "childList"
    /\ \E node \in SeqToSet(m.addedNodes \o m.removedNodes) :
         /\ node.nodeType = "element"
         /\ \/ AddedClass \in node.classList
            \/ RemovedClass \in node.classList
            \/ node.markerInside

\* The recalculation set to run with no delay.
ObserverCallbackNoDelay(s, i) ==
  IF ShouldRecalculate(s.records[i]) THEN SetTimeout(s, "debounce", i, 0) ELSE s

ObserverCallback(s, i) ==
  IF ShouldRecalculate(s.records[i]) THEN SetTimeout(s, "debounce", i, DebounceDelay) ELSE s

(***************************************************************************)
(* The page-level script.                                                  *)
(***************************************************************************)
IsPullRequest(u) == \E k \in 1..Len(u) : u[k] = "pullrequest"

Unborn(s) == {i \in Inst : s.lifecycle[i] = "unborn"}
NextInst(s) == CHOOSE i \in Unborn(s) : \A j \in Unborn(s) : i <= j

InitializeExtension(s) ==
  LET s1 == IF s.prStats # NoInst THEN Destroy(s, s.prStats) ELSE s IN
  IF IsPullRequest(url)
    THEN LET i == NextInst(s1) IN Construct([s1 EXCEPT !.prStats = i], i)
    ELSE s1

\* The callback of the navigation observer.
NavigationCallback(s) ==
  IF url # s.lastUrl
    THEN SetTimeout([s EXCEPT !.lastUrl = url], "nav", NoInst, NavDelay)
    ELSE s

\* The end of a task: the queued records are delivered, to the navigation
\* observer first and then to the instances' observers in creation order.
RECURSIVE Deliver(_, _)
Deliver(s, i) ==
  IF i > MaxInst THEN s
  ELSE Deliver(IF s.records[i] # <<>> THEN ObserverCallback(s, i) ELSE s, i + 1)

\* Elements that became garbage hold nothing any more.
Collect(s) ==
  [s EXCEPT !.content = [e \in Elem |-> IF e \in FreeElems(s) THEN Blank ELSE @[e]]]

EndTask(s) ==
  Collect(Deliver(IF s.docRecords # <<>> THEN NavigationCallback(s) ELSE s, 1))

\* The task is over: its state is the program's.
Commit(s) ==
  \E v \in {s} :
    /\ children' = v.children
    /\ content' = v.content
    /\ lastUrl' = v.lastUrl
    /\ prStats' = v.prStats
    /\ waiting' = v.waiting
    /\ timers' = v.timers
    /\ lifecycle' = v.lifecycle
    /\ additionsTotal' = v.additionsTotal
    /\ deletionsTotal' = v.deletionsTotal
    /\ sinceUpdate' = v.sinceUpdate
    /\ observer' = v.observer
    /\ statsElement' = v.statsElement
    /\ last' = v.log

(***************************************************************************)
(* Initial state: the script has run on a freshly loaded page.             *)
(***************************************************************************)
\* The texts the page renders in its markers while the aggregator runs.
MarkerSpan(cls, text) == [cls |-> cls, text |-> text]
PageMarkers == {MarkerSpan(AddedClass, <<"+", "2">>), MarkerSpan(RemovedClass, <<"-", "1">>)}

Blanks ==
  [children |-> [k \in Slot |-> <<>>], content |-> [e \in Elem |-> Blank],
   lastUrl |-> url, prStats |-> NoInst, waiting |-> {}, timers |-> <<>>,
   lifecycle |-> [i \in Inst |-> "unborn"],
   additionsTotal |-> [i \in Inst |-> 0], deletionsTotal |-> [i \in Inst |-> 0],
   sinceUpdate |-> [i \in Inst |-> SinceEpoch], observer |-> [i \in Inst |-> "null"],
   statsElement |-> [i \in Inst |-> NoElem],
   records |-> [j \in Inst |-> <<>>], docRecords |-> <<>>, log |-> Log("init", NoInst)]

Init ==
  /\ readyState \in {"loading", "interactive"}
  /\ url \in Urls
  /\ markers = <<>>
  /\ anchors = [k \in Slot |-> "absent"]
  /\ \E s \in {EndTask(InitializeExtension(Blanks))} :
       /\ children = s.children
       /\ content = s.content
       /\ lastUrl = s.lastUrl
       /\ prStats = s.prStats
       /\ waiting = s.waiting
       /\ timers = s.timers
       /\ lifecycle = s.lifecycle
       /\ additionsTotal = s.additionsTotal
       /\ deletionsTotal = s.deletionsTotal
       /\ sinceUpdate = s.sinceUpdate
       /\ observer = s.observer
       /\ statsElement = s.statsElement
       /\ last = s.log

(***************************************************************************)
(* Timers.  A callback runs when it is due, callbacks run in the order of  *)
(* their due times, and callbacks due at the same time in the order they   *)
(* were set.  The clock does not pass a callback that is due.              *)
(***************************************************************************)
RemoveAt(q, k) == SubSeq(q, 1, k - 1) \o SubSeq(q, k + 1, Len(q))

IsNextTimer(k) ==
  /\ k \in 1..Len(timers)
  /\ timers[k].wait = 0
  /\ \A j \in 1..(k - 1) : timers[j].wait > 0

Fired(op, k) == [Cur(op, timers[k].inst) EXCEPT !.timers = RemoveAt(@, k)]

\* The callback start() sets.
StartTimer ==
  \E k \in 1..Len(timers) :
    /\ IsNextTimer(k)
    /\ timers[k].kind = "start"
    /\ LET i == timers[k].inst IN
       Commit(EndTask(SetupObserver(InjectStats(CalculateStats(Fired("start", k), i), i), i)))
    /\ UNCHANGED envVars

\* The badge injected only when the instance holds none.
DebounceBodyNoContains(s, i) ==
  LET s1 == CalculateStats(s, i) IN
  IF s1.statsElement[i] = NoElem THEN InjectStats(s1, i) ELSE s1

\* The callback the observer callback sets.
DebounceBody(s, i) ==
  LET s1 == CalculateStats(s, i) IN
  IF s1.statsElement[i] = NoElem \/ ~InDocument(s1, s1.statsElement[i])
    THEN InjectStats(s1, i)
    ELSE s1

DebounceTimer ==
  \E k \in 1..Len(timers) :
    /\ IsNextTimer(k)
    /\ timers[k].kind = "debounce"
    /\ Commit(EndTask(DebounceBody(Fired("debounce", k), timers[k].inst)))
    /\ UNCHANGED envVars

\* setTimeout(initializeExtension, 1000)
NavTimer ==
  \E k \in 1..Len(timers) :
    /\ IsNextTimer(k)
    /\ timers[k].kind = "nav"
    /\ IsPullRequest(url) => Unborn(Cur("nav", NoInst)) # {}
    /\ Commit(EndTask(InitializeExtension(Fired("nav", k))))
    /\ UNCHANGED envVars

\* The DOMContentLoaded listeners init() registered, in registration order.
RECURSIVE StartAll(_, _)
StartAll(s, i) ==
  IF i > MaxInst THEN s
  ELSE StartAll(IF i \in s.waiting THEN Start(s, i) ELSE s, i + 1)

DOMContentLoaded ==
  /\ readyState = "loading"
  /\ readyState' = "interactive"
  /\ Commit(EndTask([StartAll(Cur("loaded", NoInst), 1) EXCEPT !.waiting = {}]))
  /\ UNCHANGED <<url, markers, anchors>>

(***************************************************************************)
(* The environment: the clock, the single-page application.                *)
(***************************************************************************)
Min(a, b) == IF a <= b THEN a ELSE b

Tick ==
  /\ \A k \in 1..Len(timers) : timers[k].wait > 0
  /\ timers' = [k \in 1..Len(timers) |-> [timers[k] EXCEPT !.wait = @ - TickMs]]
  /\ sinceUpdate' = [i \in Inst |-> Min(sinceUpdate[i] + TickMs, DebounceDelay)]
  /\ last' = NoLog
  /\ UNCHANGED <<readyState, url, markers, anchors>>
  /\ UNCHANGED <<children, content, lastUrl, prStats, waiting, lifecycle,
                 additionsTotal, deletionsTotal, observer, statsElement>>

\* history.pushState: the location changes, the document does not.
Navigate ==
  \E u \in Urls \ {url} :
    /\ url' = u
    /\ last' = NoLog
    /\ UNCHANGED <<readyState, markers, anchors>>
    /\ UNCHANGED <<children, content, lastUrl, prStats, waiting, timers, lifecycle,
                   additionsTotal, deletionsTotal, sinceUpdate, observer, statsElement>>

\* The page mutated the document: the observers are told.  The page makes
\* no mutation that leaves more than MaxTimers callbacks pending.
PageTask(s) == \E v \in {EndTask(s)} : Len(v.timers) <= MaxTimers /\ Commit(v)

PageMutation(record) == PageTask(Mutate(Cur("env", NoInst), record))

\* The page adds a marker span, alone or inside a row it adds.
AddMarker ==
  \E m \in PageMarkers, wrapped \in BOOLEAN :
    /\ Len(markers) < MaxMarkers
    /\ markers' = Append(markers, m)
    /\ PageMutation(ChildList(<<IF wrapped THEN RowNode ELSE MarkerNode(m.cls)>>, <<>>))
    /\ UNCHANGED <<readyState, url, anchors>>

RemoveMarker ==
  \E k \in 1..Len(markers), wrapped \in BOOLEAN :
    /\ markers' = RemoveAt(markers, k)
    /\ PageMutation(ChildList(<<>>, <<IF wrapped THEN RowNode ELSE MarkerNode(markers[k].cls)>>))
    /\ UNCHANGED <<readyState, url, anchors>>

\* The page shown: its first candidate has a text that names no files, its
\* second one names them.
AnchorKinds(k) == IF k = 1 THEN {"plain"} ELSE {"file"}

\* The page adds a candidate anchor or changes the text of one.
SetAnchor ==
  \E k \in Slot : \E v \in AnchorKinds(k) :
    /\ anchors[k] # v
    /\ anchors' = [anchors EXCEPT ![k] = v]
    /\ PageMutation(IF anchors[k] = "absent" THEN ChildList(<<AnchorNode>>, <<>>)
                    ELSE ChildList(<<TextNode>>, <<TextNode>>))
    /\ UNCHANGED <<readyState, url, markers>>

\* The page removes a candidate anchor, and with it what was injected into it.
RemoveAnchor ==
  \E k \in Slot :
    /\ anchors[k] # "absent"
    /\ anchors' = [anchors EXCEPT ![k] = "absent"]
    /\ PageTask(Mutate([Cur("env", NoInst) EXCEPT !.children[k] = <<>>],
                       ChildList(<<>>, <<AnchorNode>>)))
    /\ UNCHANGED <<readyState, url, markers>>

\* The page re-renders the content of an anchor: what was injected is gone.
Rerender ==
  \E k \in Slot :
    /\ children[k] # <<>>
    /\ PageTask(Mutate([Cur("env", NoInst) EXCEPT !.children[k] = <<>>],
                       ChildList(<<TextNode>>, <<TextNode, BadgeNode>>)))
    /\ UNCHANGED envVars

\* The page changes something else in the document.
OtherMutation ==
  /\ PageMutation(ChildList(<<OtherNode>>, <<>>))
  /\ UNCHANGED envVars

Next ==
  \/ StartTimer
  \/ DebounceTimer
  \/ NavTimer
  \/ DOMContentLoaded
  \/ Tick
  \/ Navigate
  \/ AddMarker
  \/ RemoveMarker
  \/ SetAnchor
  \/ RemoveAnchor
  \/ Rerender
  \/ OtherMutation

Spec == Init /\ [][Next]_vars

(***************************************************************************)
(* The methods applied to the instance of a loaded pull-request page,      *)
(* whatever its markers and anchors are.                                   *)
(***************************************************************************)
\* Marker texts: "+10", "+5", "-3", "0", "n/a", " x7 ".
RichTexts ==
  {<<"+", "1", "0">>, <<"+", "5">>, <<"-", "3">>, <<"0">>, <<"n", "/", "a">>,
   <<" ", "x", "7", " ">>}

RichMarkers == {MarkerSpan(cls, text) : cls \in {AddedClass, RemovedClass}, text \in RichTexts}

SeqsUpTo(S, n) == UNION {[1..m -> S] : m \in 0..n}

InitScan ==
  /\ readyState = "interactive"
  /\ url = <<"pullrequest", "1">>
  /\ \E s \in {EndTask(InitializeExtension(Blanks))} :
       /\ children = s.children
       /\ content = s.content
       /\ lastUrl = s.lastUrl
       /\ prStats = s.prStats
       /\ waiting = s.waiting
       /\ timers = s.timers
       /\ lifecycle = s.lifecycle
       /\ additionsTotal = s.additionsTotal
       /\ deletionsTotal = s.deletionsTotal
       /\ sinceUpdate = s.sinceUpdate
       /\ observer = s.observer
       /\ statsElement = s.statsElement
       /\ last = s.log
  /\ markers \in SeqsUpTo(RichMarkers, MaxInitMarkers)
  /\ anchors \in {f \in [Slot -> {"absent", "plain", "file"}] :
                    \A k \in Slot : f[k] \in AnchorKinds(k) \cup {"absent"}}

CallCalculateStats ==
  /\ prStats # NoInst
  /\ Commit(EndTask(CalculateStats(Cur("calculateStats", prStats), prStats)))
  /\ UNCHANGED envVars

CallInjectStats ==
  /\ prStats # NoInst
  /\ Commit(EndTask(InjectStats(Cur("injectStats", prStats), prStats)))
  /\ UNCHANGED envVars

NextScan ==
  \/ CallCalculateStats
  \/ CallInjectStats

SpecScan == InitScan /\ [][NextScan]_vars

(***************************************************************************)
(* Properties.                                                             *)
(***************************************************************************)
BadgeIn(ch, e) == \E k \in Slot : e \in SeqToSet(ch[k])
BadgeInDoc(i) == statsElement[i] # NoElem /\ BadgeIn(children, statsElement[i])
Watching(i) == observer[i] = "connected"
Disposed(i) == lifecycle[i] = "disposed"
BadgeCount == Len(children[1]) + Len(children[2])
Pending(kind, i) == \E k \in 1..Len(timers) : timers[k].kind = kind /\ timers[k].inst = i

TypeOK ==
  /\ prStats \in Inst \cup {NoInst}
  /\ \A e \in Elem : Cardinality({k \in Slot : e \in SeqToSet(children[k])}) <= 1


\* C1: once destroy() has been called on an instance, its badge is not in the
\* document, its observer is not connected, and no callback of it recalculates,
\* injects or installs an observer any more.
C1_DisposedStaysInert ==
  \A i \in Inst :
    Disposed(i) =>
      /\ ~BadgeInDoc(i)
      /\ ~Watching(i)
      /\ ~(last.inst = i /\ last.op \in {"start", "debounce"})

\* C2: at most one instance has a connected observer, and it is the current,
\* undisposed one.
C2_OneWatcherTheCurrent ==
  /\ Cardinality({i \in Inst : Watching(i)}) <= 1
  /\ \A i \in Inst : Watching(i) => i = prStats /\ ~Disposed(i)

\* C3: the document holds at most one injected badge.
C3_AtMostOneBadge == BadgeCount <= 1

\* C4: the navigation handler run on a non-PR path leaves no live instance;
\* and on a non-PR path with no live instance, once every pending timer has
\* fired, no observer is connected and no badge is in the document.
C4_NonPullRequestPageIsClean ==
  /\ last.op = "nav" /\ ~IsPullRequest(url) => \A i \in Inst : lifecycle[i] # "live"
  /\ (/\ ~IsPullRequest(url)
      /\ \A i \in Inst : lifecycle[i] # "live"
      /\ timers = <<>>
      /\ waiting = {})
     => /\ \A i \in Inst : ~Watching(i)
        /\ BadgeCount = 0

\* What the markers of the document add up to, read off the texts one
\* character at a time.
RECURSIVE ReadDigits(_, _, _)
ReadDigits(text, k, acc) ==
  IF k > Len(text) \/ text[k] \notin Digits THEN acc
  ELSE ReadDigits(text, k + 1, 10 * acc + DigitValue(text[k]))

\* The number written by the first run of digits of the text; 0: no digit.
RECURSIVE FirstNumber(_, _)
FirstNumber(text, k) ==
  IF k > Len(text) THEN 0
  ELSE IF text[k] \in Digits THEN ReadDigits(text, k, 0)
  ELSE FirstNumber(text, k + 1)

\* The signed integer the text starts with; 0: it starts with none.
LeadingSigned(text) ==
  LET t == Trim(text) IN
  IF Len(t) >= 2 /\ t[1] \in Signs /\ t[2] \in Digits
    THEN (IF t[1] = "-" THEN 0 - 1 ELSE 1) * ReadDigits(t, 2, 0)
  ELSE IF Len(t) >= 1 /\ t[1] \in Digits THEN ReadDigits(t, 1, 0)
  ELSE 0

RECURSIVE SumOfFirstNumbers(_, _)
SumOfFirstNumbers(cls, k) ==
  IF k > Len(markers) THEN 0
  ELSE (IF markers[k].cls = cls THEN FirstNumber(markers[k].text, 1) ELSE 0)
         + SumOfFirstNumbers(cls, k + 1)

RECURSIVE SumOfLeadingSigned(_, _)
SumOfLeadingSigned(cls, k) ==
  IF k > Len(markers) THEN 0
  ELSE (IF markers[k].cls = cls /\ LeadingSigned(markers[k].text) > 0
          THEN LeadingSigned(markers[k].text) ELSE 0)
         + SumOfLeadingSigned(cls, k + 1)

TotalsAre(i, a, d) == additionsTotal[i] = a /\ deletionsTotal[i] = d

Fresh(i) == TotalsAre(i, SumOfFirstNumbers(AddedClass, 1), SumOfFirstNumbers(RemovedClass, 1))

\* C5: while an instance's observer is connected and no debounce callback of
\* it is pending, its totals are the sums over the markers of the document,
\* and its badge shows them.
C5_LatestStateReflected ==
  \A i \in Inst :
    Watching(i) /\ ~Pending("debounce", i) =>
      /\ Fresh(i)
      /\ statsElement[i] # NoElem =>
           content[statsElement[i]] = Display(SumOfFirstNumbers(AddedClass, 1),
                                              SumOfFirstNumbers(RemovedClass, 1))

\* C5, witness: a burst left two callbacks pending, the first ran, the second
\* was skipped, and the totals are those of the final document.
C5_Witness ==
  /\ last.op = "debounce" /\ last.skipped
  /\ Watching(last.inst) /\ ~Pending("debounce", last.inst)
  /\ markers # <<>>
  /\ additionsTotal[last.inst] + deletionsTotal[last.inst] > 0

\* C6: a callback that calls calculateStats less than DebounceDelay after the
\* last accepted run scans nothing: the totals, the time of the last run and
\* what the badge shows are unchanged; a later call scans.
C6_SkippedEntirely ==
  [][last'.op \in {"start", "debounce"} =>
       LET i == last'.inst IN
       IF sinceUpdate[i] < DebounceDelay
         THEN /\ ~last'.scanned
              /\ additionsTotal'[i] = additionsTotal[i]
              /\ deletionsTotal'[i] = deletionsTotal[i]
              /\ sinceUpdate'[i] = sinceUpdate[i]
              /\ statsElement[i] # NoElem =>
                   content'[statsElement'[i]] = content[statsElement[i]]
         ELSE last'.scanned /\ sinceUpdate'[i] = 0]_vars

\* C6, witness: a call was skipped although the markers had changed.
C6_Witness ==
  /\ last.op = "debounce" /\ last.skipped /\ ~last.scanned
  /\ ~Fresh(last.inst)

\* C9: when a debounce callback runs and the instance's badge is not in the
\* document, the badge is injected if there is an anchor, whether or not the
\* recalculation was skipped; when the badge is in the document, nothing is
\* injected.
C9_ReinjectWhenAbsent ==
  [][last'.op = "debounce" =>
       LET i == last'.inst IN
       IF BadgeInDoc(i)
         THEN /\ ~last'.injected
              /\ statsElement'[i] = statsElement[i]
              /\ children' = children
         ELSE FindFileCountElement # NoSlot =>
                /\ last'.injected
                /\ statsElement'[i] # statsElement[i]
                /\ children'[FindFileCountElement] = <<statsElement'[i]>>]_vars

\* C9, witness: the recalculation was skipped and the badge was injected.
C9_Witness ==
  /\ last.op = "debounce" /\ last.skipped /\ last.injected
  /\ BadgeInDoc(last.inst)

\* C7, as claimed: after an accepted recalculation each total is the sum of
\* the leading signed integers of its markers, a negative one counting 0.
C7_SumOfLeadingSignedIntegers ==
  last.scanned =>
    TotalsAre(last.inst, SumOfLeadingSigned(AddedClass, 1), SumOfLeadingSigned(RemovedClass, 1))

\* C7, amended: after an accepted recalculation each total is the sum, over
\* its markers, of the number written by the first run of digits of the text,
\* wherever it stands and whatever sign precedes it; a text without a digit
\* counts 0.
C7_SumOfFirstNumbers == last.scanned => Fresh(last.inst)

\* C7, witness: a signed, an unmatched and a negative text have been summed.
C7_Witness ==
  /\ last.scanned
  /\ markers = <<MarkerSpan(AddedClass, <<"+", "1", "0">>),
                 MarkerSpan(AddedClass, <<"n", "/", "a">>),
                 MarkerSpan(RemovedClass, <<"-", "3">>)>>
  /\ TotalsAre(last.inst, 10, 3)

\* The badge of totals a and d, a total of 0 written "0".
ZeroUnsigned(a, d) ==
  [additionsText |-> IF a = 0 THEN SignedText("", 0) ELSE SignedText("+", a),
   deletionsText |-> IF d = 0 THEN SignedText("", 0) ELSE SignedText("-", d),
   title |-> <<a, d>>]

\* The badge of totals a and d, each written with its sign.
AlwaysSigned(a, d) ==
  [additionsText |-> SignedText("+", a), deletionsText |-> SignedText("-", d),
   title |-> <<a, d>>]

Example ==
  <<MarkerSpan(AddedClass, <<"+", "1", "0">>), MarkerSpan(AddedClass, <<"+", "5">>),
    MarkerSpan(RemovedClass, <<"-", "3">>)>>

Recalculated(i) == sinceUpdate[i] < DebounceDelay

\* C10, as claimed: a badge injected after a recalculation shows +a / -d for
\* the stored totals a and d, whatever they are.
C10_ShowsSignedTotals ==
  \A i \in Inst :
    BadgeInDoc(i) /\ Recalculated(i) =>
      content[statsElement[i]] = AlwaysSigned(additionsTotal[i], deletionsTotal[i])

\* C10, amended: a badge injected after a recalculation shows +a / -d for the
\* stored totals a and d that are > 0 and "0" for a total of 0, its title
\* states both, and the markers "+10", "+5" and "-3" give +15 / -3.
C10_ShowsTotalsZeroUnsigned ==
  \A i \in Inst :
    BadgeInDoc(i) /\ Recalculated(i) =>
      /\ content[statsElement[i]] = ZeroUnsigned(additionsTotal[i], deletionsTotal[i])
      /\ markers = Example => content[statsElement[i]] = AlwaysSigned(15, 3)

\* C10, witness: the example's badge.
C10_Witness ==
  /\ markers = Example
  /\ BadgeInDoc(1) /\ Recalculated(1)
  /\ content[statsElement[1]] = AlwaysSigned(15, 3)

\* C8: after injectStats with an anchor, the anchor holds exactly one badge,
\* the one just created; the instance holds it, it shows the instance's
\* totals, and the badge that was under the anchor is out of the document.
C8_InjectIsIdempotent ==
  /\ BadgeCount <= 1
  /\ last.op = "injectStats" /\ FindFileCountElement # NoSlot =>
       /\ last.injected
       /\ last.target = FindFileCountElement
       /\ children[last.target] = <<last.created>>
       /\ statsElement[last.inst] = last.created
       /\ last.created # last.removed
       /\ content[last.created] = Display(additionsTotal[last.inst], deletionsTotal[last.inst])
       /\ last.removed # NoElem => ~BadgeIn(children, last.removed)

\* C8, witness: a repeated call replaced the badge of the call before.
C8_Witness ==
  /\ last.op = "injectStats" /\ last.injected
  /\ last.removed # NoElem
  /\ children[last.target] = <<last.created>>

\* C11: a start or debounce callback that runs while the document has no
\* anchor injects nothing: the badges of the document and every instance's
\* badge handle are unchanged; an accepted recalculation still sets the totals
\* to the sums over the markers; while the instance holds no badge, no badge
\* content is written; and the start callback goes on to connect the observer.
C11_NoAnchorNoInjection ==
  [][last'.op \in {"start", "debounce"} /\ FindFileCountElement = NoSlot =>
       LET i == last'.inst IN
       /\ ~last'.injected
       /\ children' = children
       /\ statsElement' = statsElement
       /\ last'.scanned => /\ additionsTotal'[i] = SumOfFirstNumbers(AddedClass, 1)
                           /\ deletionsTotal'[i] = SumOfFirstNumbers(RemovedClass, 1)
       /\ statsElement[i] = NoElem => content' = content
       /\ last'.op = "start" => last'.scanned /\ observer'[i] = "connected"]_vars

\* C11, witness: the start callback ran without an anchor: the totals are
\* those of the markers, no badge is held, the observer is connected.
C11_Witness ==
  /\ last.op = "start" /\ FindFileCountElement = NoSlot
  /\ last.scanned /\ ~last.injected
  /\ additionsTotal[last.inst] + deletionsTotal[last.inst] > 0
  /\ statsElement[last.inst] = NoElem
  /\ Watching(last.inst)

\* C12: an accepted recalculation sets the totals to the sums over the markers
\* of the document, whatever the totals were; when the totals already were
\* those sums, the totals and the content of the badge the instance holds
\* are the same after it.
C12_RecomputedFromScratch ==
  [][last'.scanned =>
       LET i == last'.inst IN
       /\ additionsTotal'[i] = SumOfFirstNumbers(AddedClass, 1)
       /\ deletionsTotal'[i] = SumOfFirstNumbers(RemovedClass, 1)
       /\ Fresh(i) =>
            /\ additionsTotal'[i] = additionsTotal[i]
            /\ deletionsTotal'[i] = deletionsTotal[i]
            /\ statsElement[i] # NoElem /\ statsElement'[i] = statsElement[i] =>
                 content'[statsElement[i]] = content[statsElement[i]]]_vars

\* C12, witness: a debounce callback recalculated and found the totals it
\* left: they are not zero, and the badge, in the document, was kept.
C12_Witness ==
  /\ last.op = "debounce" /\ last.scanned /\ ~last.injected
  /\ last.before = <<additionsTotal[last.inst], deletionsTotal[last.inst]>>
  /\ additionsTotal[last.inst] + deletionsTotal[last.inst] > 0
  /\ BadgeInDoc(last.inst)

\* The debounce callbacks of instance i among the pending callbacks ts.
DebounceCount(ts, i) ==
  Cardinality({k \in 1..Len(ts) : ts[k].kind = "debounce" /\ ts[k].inst = i})

\* C13: a task leaves an instance one more pending debounce callback exactly
\* when the page added or removed a marker element, alone or inside another
\* element, while the instance's observer was connected; every other task
\* (another page mutation, a badge inserted, removed or refreshed by an
\* instance) schedules none, and a debounce callback that runs takes itself
\* off the pending ones.
C13_ScheduledIffMarkerTouched ==
  [][\A i \in Inst :
       DebounceCount(timers', i) =
         DebounceCount(timers, i)
           + (IF markers' # markers /\ Watching(i) THEN 1 ELSE 0)
           - (IF last'.op = "debounce" /\ last'.inst = i THEN 1 ELSE 0)]_vars

\* C13, witness: a debounce callback of a watching instance refreshed and
\* inserted its badge in place of another, and no callback is pending.
C13_Witness ==
  /\ last.op = "debounce" /\ last.scanned /\ last.injected
  /\ last.removed # NoElem
  /\ Watching(last.inst) /\ ~Disposed(last.inst)
  /\ BadgeInDoc(last.inst)
  /\ timers = <<>>

\* C14: between tasks, the badge an instance holds shows the instance's
\* totals, in its texts and in its title, whether it is in the document or
\* not.
C14_BadgeShowsTotals ==
  \A i \in Inst :
    statsElement[i] # NoElem =>
      /\ content[statsElement[i]].title = <<additionsTotal[i], deletionsTotal[i]>>
      /\ content[statsElement[i]].additionsText = AdditionsText(additionsTotal[i])
      /\ content[statsElement[i]].deletionsText = DeletionsText(deletionsTotal[i])

\* C14, witness: an accepted recalculation changed the totals of an instance
\* whose badge was, and is, in the document.
C14_Witness ==
  /\ last.op = "debounce" /\ last.scanned /\ ~last.injected
  /\ BadgeInDoc(last.inst)
  /\ last.before # <<additionsTotal[last.inst], deletionsTotal[last.inst]>>
  /\ additionsTotal[last.inst] + deletionsTotal[last.inst] > 0

\* C15: an instance whose observer was never set up has not recalculated and
\* has no debounce callback pending, so the recalculation of its start
\* callback is its first; that recalculation is not skipped: after the start
\* callback the totals are the sums over the markers of the document, the
\* observer is connected, and with an anchor present the badge is in the
\* document and shows those sums.
C15_FirstRecalculationRuns ==
  /\ \A i \in Inst :
       observer[i] = "null" =>
         /\ ~Pending("debounce", i)
         /\ sinceUpdate[i] = SinceEpoch
         /\ TotalsAre(i, 0, 0)
         /\ statsElement[i] = NoElem
  /\ last.op = "start" =>
       /\ last.scanned /\ ~last.skipped
       /\ last.before = <<0, 0>>
       /\ Fresh(last.inst)
       /\ Watching(last.inst)
       /\ FindFileCountElement # NoSlot =>
            /\ last.injected
            /\ BadgeInDoc(last.inst)
            /\ content[statsElement[last.inst]] =
                 Display(SumOfFirstNumbers(AddedClass, 1), SumOfFirstNumbers(RemovedClass, 1))

\* C15, witness: the start callback of a live instance found markers and an
\* anchor: the badge shows their sums and the observer is connected.
C15_Witness ==
  /\ last.op = "start" /\ last.scanned /\ last.injected
  /\ ~Disposed(last.inst)
  /\ markers # <<>>
  /\ additionsTotal[last.inst] + deletionsTotal[last.inst] > 0
  /\ BadgeInDoc(last.inst)
  /\ Watching(last.inst)

=============================================================================
